---------------------------- MODULE Spec2Model ----------------------------
(***************************************************************************)
(* Model of the Nimba SMS command-line client: the typed API client        *)
(* (src/core/api.py), its data model (src/core/types.py) and the commands  *)
(* that drive it (src/commands/*.py).                                      *)
(*                                                                         *)
(* One invocation is modelled at a time.  It is either a direct call of an *)
(* APIClient method (Call) or a command of the CLI (Run).  Both run up to  *)
(* the point where the HTTP request has been handed to the transport, or   *)
(* to their early failure.  Respond is the arrival of the server's answer  *)
(* and everything the method and the command do with it.  Finish returns   *)
(* to the prompt.  The other invocations are complete in one step: the     *)
(* construction of a request entity (Build), its round trip through the    *)
(* dumped mapping (RoundTrip), the parsing of a response object (Parse),   *)
(* the calls of the configuration manager (Load, Save) and the config      *)
(* command (Config).  The configuration file (src/config/settings.py) is   *)
(* the one part of the state that outlives an invocation.  SetAttr is an   *)
(* assignment by the caller to a field of an entity it has built.          *)
(*                                                                         *)
(* SpecConcurrent is a second specification: two processes that call       *)
(* save_credentials on the same file at the same time, step by step.       *)
(*                                                                         *)
(* Strings are modelled by their length and integers by their value; an    *)
(* absent value (Python None) is the integer None.                         *)
(*                                                                         *)
(* api.py uses seven model classes that it never imports.  The model takes *)
(* the module as loaded and its function bodies as executed, which is what *)
(* an interpreter with deferred evaluation of annotations does: the        *)
(* missing name is looked up when the statement that uses it runs, and     *)
(* raises NameError there.                                                 *)
(***************************************************************************)
EXTENDS Integers, Sequences, FiniteSets, TLC

\* ------------------------------------------------------------------------
\* Bounds of the model
\* ------------------------------------------------------------------------
MaxItems == 2      \* longest JSON array in a response body
MaxId == 2         \* distinct identifiers of server objects

\* ------------------------------------------------------------------------
\* Values
\* ------------------------------------------------------------------------
None == -1           \* Python None for integer-valued and length-valued fields
NoneStr == "<None>"  \* Python None for string-valued arguments

\* list_extensions(limit=10, offset=0) and every other list method
DefaultLimit == 10
DefaultOffset == 0

\* ------------------------------------------------------------------------
\* The client operations (methods of APIClient)
\* ------------------------------------------------------------------------
Ops ==
  { "get_account", "list_extensions", "create_extension", "get_extension",
    "update_extension", "upload_logo", "list_actions", "create_action",
    "update_action", "delete_action", "publish_action", "list_messages",
    "send_message", "get_message", "list_contacts", "create_contact",
    "list_groups", "list_sender_names", "create_verification",
    "check_verification" }

\* Methods returning [Entity(**x) for x in data["results"]]
EnvelopeListOps ==
  { "list_extensions", "list_actions", "list_messages", "list_groups",
    "list_sender_names" }

\* Method returning [Contact(**contact) for contact in data]
BareListOps == { "list_contacts" }

ListOps == EnvelopeListOps \cup BareListOps

\* Methods that send json=<entity>.model_dump(exclude_none=True)
EntityBodyOps ==
  { "create_extension", "create_action", "send_message", "create_contact",
    "create_verification", "check_verification" }

\* Methods that send json=data for a caller-supplied dict
DictBodyOps == { "update_extension", "update_action" }

\* HTTP method of each operation
MethodOf(op) ==
  CASE op \in { "get_account", "list_extensions", "get_extension",
                "list_actions", "list_messages", "get_message",
                "list_contacts", "list_groups", "list_sender_names" } -> "GET"
    [] op \in { "create_extension", "create_action", "publish_action",
                "send_message", "create_contact", "create_verification" } -> "POST"
    [] op \in { "update_extension", "upload_logo", "update_action",
                "check_verification" } -> "PATCH"
    [] op = "delete_action" -> "DELETE"

\* Resource path of each operation, relative to base_url
PathOf(op) ==
  CASE op = "get_account" -> "/accounts"
    [] op \in { "list_extensions", "create_extension" } -> "/extensions"
    [] op \in { "get_extension", "update_extension" } -> "/extensions/{id}"
    [] op = "upload_logo" -> "/extensions/{id}/logo"
    [] op \in { "list_actions", "create_action" } -> "/extensions/{id}/actions"
    [] op \in { "update_action", "delete_action" } ->
         "/extensions/{id}/actions/{action_id}"
    [] op = "publish_action" -> "/extensions/{id}/actions/{action_id}/publish"
    [] op \in { "list_messages", "send_message" } -> "/messages"
    [] op = "get_message" -> "/messages/{id}"
    [] op \in { "list_contacts", "create_contact" } -> "/contacts"
    [] op = "list_groups" -> "/groups"
    [] op = "list_sender_names" -> "/sendernames"
    [] op = "create_verification" -> "/verifications"
    [] op = "check_verification" -> "/verifications/{id}"

\* The model class each operation builds from the response ("" for delete)
EntityOf(op) ==
  CASE op = "get_account" -> "Account"
    [] op \in { "list_extensions", "create_extension", "get_extension",
                "update_extension", "upload_logo" } -> "Extension"
    [] op \in { "list_actions", "create_action", "update_action" } ->
         "ExtensionAction"
    [] op = "delete_action" -> ""
    [] op = "publish_action" -> "ExtensionPublish"
    [] op \in { "list_messages", "get_message" } -> "Message"
    [] op = "send_message" -> "MessageResponse"
    [] op \in { "list_contacts", "create_contact" } -> "Contact"
    [] op = "list_groups" -> "Groupe"
    [] op = "list_sender_names" -> "SenderName"
    [] op = "create_verification" -> "RequestVerification"
    [] op = "check_verification" -> "CheckVerification"

\* Names bound in api.py's module namespace by "from .types import (...)"
ImportedNames ==
  { "Account", "Extension", "CreateExtension", "ExtensionAction",
    "PricingPlan", "ExtensionPublish" }


\* ------------------------------------------------------------------------
\* Request entities (src/core/types.py).  A field is described by the range
\* [lo, hi] of its value (the length of a string or list, the value of an
\* integer, 1 for a well-formed URL, the index of an enum member), whether
\* None is accepted, and the default used when the caller omits the field.
\* ------------------------------------------------------------------------
NoDefault == -2      \* Field(...) : the field is required

F(lo, hi, optional, default) ==
  [lo |-> lo, hi |-> hi, optional |-> optional, default |-> default]

\* verificationid: UUID = Field(default=UUID("c195e2f8-..."))
DefaultVerificationId == 1

RequestTypes ==
  { "CreateExtension", "CreateContact", "CreateMessage",
    "RequestVerification", "CheckVerification", "ExtensionAction" }

FieldsOf(t) ==
  CASE t = "CreateExtension" ->
         [ name |-> F(0, 30, FALSE, NoDefault),
           description |-> F(0, 400, FALSE, NoDefault),
           base_api_url |-> F(1, 1, FALSE, NoDefault),
           auth_type |-> F(1, 3, FALSE, NoDefault),
           is_paid |-> F(0, 1, FALSE, NoDefault),
           documentation_url |-> F(1, 1, TRUE, None),
           website_url |-> F(1, 1, TRUE, None),
           oauth2_config |-> F(1, 1, TRUE, None) ]
    [] t = "CreateContact" ->
         [ name |-> F(0, 400, TRUE, None),
           numero |-> F(0, 128, FALSE, NoDefault),
           groups |-> F(0, 1000000, FALSE, 0) ]
    [] t = "CreateMessage" ->
         [ sender_name |-> F(0, 11, FALSE, NoDefault),
           to |-> F(1, 10, FALSE, NoDefault),
           message |-> F(0, 665, FALSE, NoDefault) ]
    [] t = "RequestVerification" ->
         [ verificationid |-> F(1, 1000000, FALSE, DefaultVerificationId),
           to |-> F(0, 128, FALSE, NoDefault),
           message |-> F(0, 153, TRUE, None),
           sender_name |-> F(0, 11, TRUE, None),
           expiry_time |-> F(5, 30, TRUE, None),
           attempts |-> F(3, 10, TRUE, None),
           code |-> F(0, 1000000, TRUE, None),
           code_length |-> F(4, 8, TRUE, None),
           url |-> F(1, 1, TRUE, None) ]
    [] t = "CheckVerification" ->
         [ code |-> F(1000, 999999, FALSE, NoDefault),
           status |-> F(1, 7, FALSE, None) ]
    [] t = "ExtensionAction" ->
         [ actionid |-> F(1, 1000000, FALSE, NoDefault),
           name |-> F(0, 100, FALSE, NoDefault),
           method |-> F(1, 5, FALSE, NoDefault),
           endpoint |-> F(0, 255, FALSE, NoDefault),
           description |-> F(0, 200, FALSE, NoDefault),
           required_params |-> F(0, 1000000, FALSE, 0),
           optional_params |-> F(0, 1000000, FALSE, 0),
           response_format |-> F(0, 1000000, FALSE, 0) ]

\* (variant: the upper limit of a field is not enforced)
FieldAcceptsNoMax(spec, v) ==
  IF v = None THEN spec.optional ELSE spec.lo <= v

\* (variant: the limits themselves are rejected, as with gt= and lt=)
FieldAcceptsExclusive(spec, v) ==
  IF v = None THEN spec.optional ELSE spec.lo < v /\ v < spec.hi

\* pydantic's check of one supplied value against its field
FieldAccepts(spec, v) ==
  IF v = None THEN spec.optional ELSE spec.lo <= v /\ v <= spec.hi

\* BaseModel.__init__(**kwargs) succeeds: every supplied value passes its
\* field's check and every omitted field has a default (defaults are not
\* validated).  Keyword arguments that name no field are ignored.
Validates(t, kwargs) ==
  \A f \in DOMAIN FieldsOf(t) :
    IF f \in DOMAIN kwargs
      THEN FieldAccepts(FieldsOf(t)[f], kwargs[f])
      ELSE FieldsOf(t)[f].default # NoDefault

\* (variant: an omitted field is left out of the entity instead of taking
\* its default)
ConstructGivenOnly(t, kwargs) ==
  [ f \in DOMAIN FieldsOf(t) \cap DOMAIN kwargs |-> kwargs[f] ]

\* The entity BaseModel.__init__(**kwargs) builds when it succeeds
Construct(t, kwargs) ==
  [ f \in DOMAIN FieldsOf(t) |->
      IF f \in DOMAIN kwargs THEN kwargs[f] ELSE FieldsOf(t)[f].default ]

\* model_dump(exclude_none=True)
ModelDumpExcludeNone(entity) ==
  [ f \in { g \in DOMAIN entity : entity[g] # None } |-> entity[f] ]

\* Fields whose dumped value is not a JSON type.  model_dump() is called in
\* its default mode ("python"), which leaves a UUID field as a uuid.UUID and
\* an HttpUrl field as a pydantic Url object (also inside the dict dumped
\* for oauth2_config); str-valued enum members are str and are encoded as
\* their value.
NotJsonNative(t) ==
  CASE t = "CreateExtension" ->
         { "base_api_url", "documentation_url", "website_url", "oauth2_config" }
    [] t = "RequestVerification" -> { "verificationid", "url" }
    [] t = "ExtensionAction" -> { "actionid" }
    [] OTHER -> {}

\* json.dumps(mapping), as httpx applies it to json= while it builds the
\* request: TypeError ("Object of type UUID is not JSON serializable") if
\* some value is not a JSON type
JsonEncodes(t, mapping) == DOMAIN mapping \cap NotJsonNative(t) = {}


\* ------------------------------------------------------------------------
\* HTTP responses.  A JSON object of the server is [id, valid]: valid says
\* whether it has every required field of the entity the operation expects,
\* each with a value the entity's field accepts.
\* ------------------------------------------------------------------------
Objects == [ id : 1..MaxId, valid : BOOLEAN ]

RECURSIVE SeqsUpTo(_, _)
SeqsUpTo(S, n) ==
  IF n = 0 THEN { << >> }
  ELSE LET shorter == SeqsUpTo(S, n - 1)
       IN  shorter \cup { Append(q, x) : q \in { r \in shorter : Len(r) = n - 1 },
                                         x \in S }

\* kind: "object"   one JSON object (items[1])
\*       "envelope" {"results": items}
\*       "array"    the bare JSON array items
\*       "detail"   {"detail": "<message>"}
\*       "emptyobj" {}
\*       "notjson"  a body that is not JSON (empty, HTML, ...)
\*       "account"  {"sid": ..., "balance": items[1].balance}
\*       "check"    {"code": ..., "status": items[1].status}
Body(kind, items, detail) == [ kind |-> kind, items |-> items, detail |-> detail ]

Details == { "Authentication credentials not provided.", "Internal server error" }

EntityBodies ==
  { Body("object", << o >>, "") : o \in Objects }
  \cup { Body(k, q, "") : k \in { "envelope", "array" }, q \in SeqsUpTo(Objects, MaxItems) }

\* Balances the server may report
Balances == { -1, 0, 100 }

\* JSON objects with the keys of an Account
AccountObjects == [ id : { 1 }, valid : { TRUE }, balance : Balances ]

AccountBodies == { Body("account", << o >>, "") : o \in AccountObjects }

\* The values of VerificationStatus
VerificationStatuses ==
  { "pending", "sent", "expired", "failure", "received", "too_many_attempts",
    "approved" }

\* JSON objects with the keys of a CheckVerification
CheckObjects == [ id : { 1 }, valid : { TRUE }, status : VerificationStatuses ]

CheckBodies == { Body("check", << o >>, "") : o \in CheckObjects }

PlainBodies ==
  { Body("detail", << >>, d) : d \in Details }
  \cup { Body("emptyobj", << >>, ""), Body("notjson", << >>, ""),
         Body("array", << >>, ""), Body("envelope", << >>, "") }

SuccessStatuses == { 200, 201 }
FailureStatuses == { 302, 401, 404, 429, 500 }

\* status 0: the transport raised (connection refused, timeout) and there
\* is no HTTP response
TransportFailure == [ status |-> 0, body |-> Body("notjson", << >>, "") ]
NoResponse == [ status |-> -1, body |-> Body("notjson", << >>, "") ]

\* Any body may come with a 2xx status, a plain body with the others
Responses ==
  [ status : SuccessStatuses, body : EntityBodies \cup AccountBodies \cup CheckBodies \cup PlainBodies ]
  \cup [ status : FailureStatuses, body : PlainBodies ]
  \cup { TransportFailure }

\* (variant: only 4xx and 5xx count as failures)
IsBelow400(status) == status < 400

\* httpx.Response.is_success, the test raise_for_status() makes: 1xx, 3xx,
\* 4xx and 5xx all raise HTTPStatusError
IsSuccess(status) == 200 <= status /\ status <= 299

\* ------------------------------------------------------------------------
\* Results of a client operation
\* ------------------------------------------------------------------------
\* outcome "pending" (not finished), "returned" or "raised".
\* entities is the returned entity (a one-element sequence), the returned
\* list, or empty; error is the exception class; response is the response an
\* HTTPStatusError carries (e.response).
Result(outcome, entities, error, response) ==
  [ outcome |-> outcome, entities |-> entities, error |-> error,
    response |-> response ]

Pending == Result("pending", << >>, "", NoResponse)
Returned(entities) == Result("returned", entities, "", NoResponse)
Raised(error) == Result("raised", << >>, error, NoResponse)

\* Entity built by T(**obj)
Parsed(t, obj) == [ type |-> t, id |-> obj.id ]

\* Account(**obj): sid: str, balance: int, webhook_url: Optional[str] = None;
\* any integer is a balance
ParseAccount(obj) ==
  Returned(<< [ type |-> "Account", id |-> obj.id, balance |-> obj.balance ] >>)

\* T(**response.json()) for an operation that returns one entity
ParseOne(t, body) ==
  IF t \notin ImportedNames THEN Raised("NameError")
  ELSE CASE body.kind = "notjson" -> Raised("JSONDecodeError")
         [] body.kind = "array" -> Raised("TypeError")
         [] body.kind = "account" /\ t = "Account" -> ParseAccount(body.items[1])
         [] body.kind = "check" /\ t = "CheckVerification" ->
              Returned(<< [ type |-> t, id |-> body.items[1].id,
                            status |-> body.items[1].status ] >>)
         [] body.kind = "object" ->
              IF body.items[1].valid
                THEN Returned(<< Parsed(t, body.items[1]) >>)
                ELSE Raised("ValidationError")
         [] OTHER -> Raised("ValidationError")

\* [T(**x) for x in items]
ParseItems(t, items) ==
  IF items = << >> THEN Returned(<< >>)
  ELSE IF t \notin ImportedNames THEN Raised("NameError")
  ELSE IF \E i \in 1..Len(items) : ~ items[i].valid
         THEN Raised("ValidationError")
         ELSE Returned([ i \in 1..Len(items) |-> Parsed(t, items[i]) ])

\* [T(**x) for x in data["results"]]
ParseResults(t, body) ==
  CASE body.kind = "notjson" -> Raised("JSONDecodeError")
    [] body.kind = "array" -> Raised("TypeError")
    [] body.kind = "envelope" -> ParseItems(t, body.items)
    [] OTHER -> Raised("KeyError")

\* [T(**x) for x in data]: a dict iterates over its keys, which are strings
ParseBare(t, body) ==
  CASE body.kind = "notjson" -> Raised("JSONDecodeError")
    [] body.kind = "array" -> ParseItems(t, body.items)
    [] body.kind = "emptyobj" -> Returned(<< >>)
    [] OTHER -> IF t \notin ImportedNames THEN Raised("NameError")
                ELSE Raised("TypeError")

\* What an operation does with the response it received: the transport's
\* exception propagates, raise_for_status() raises for every status that is
\* not 2xx, and otherwise the body is parsed.
Process(op, resp) ==
  IF resp = TransportFailure THEN Raised("TransportError")
  ELSE IF ~ IsSuccess(resp.status)
    THEN Result("raised", << >>, "HTTPStatusError", resp)
  ELSE IF op = "delete_action" THEN Returned(<< >>)
  ELSE IF op \in EnvelopeListOps THEN ParseResults(EntityOf(op), resp.body)
  ELSE IF op \in BareListOps THEN ParseBare(EntityOf(op), resp.body)
  ELSE ParseOne(EntityOf(op), resp.body)

\* ------------------------------------------------------------------------
\* Enum fields of the response entities (src/core/types.py).  A JSON object
\* handed to T(**obj) is [id, valid, enum, nested]: valid says that every
\* field other than the enum fields is present and acceptable, enum is the
\* string of the entity's own enum field (NoneStr: the key is absent) and
\* nested the status string of the one DeliveryMessage in a Message's
\* numbers (NoneStr: numbers is empty).
\* ------------------------------------------------------------------------
EnumTypes == { "Message", "DeliveryMessage", "SenderName", "Extension",
               "ExtensionAction", "CheckVerification" }

\* The wire values of the enum (or Literal) of the entity's enum field
EnumWireValues(t) ==
  CASE t \in { "Message", "DeliveryMessage" } ->
         { "pending", "sent", "failure", "not_available", "received", "tosend" }
    [] t = "SenderName" -> { "pending", "refused", "accepted" }
    [] t = "Extension" -> { "none", "api_key", "oauth2" }
    [] t = "ExtensionAction" -> { "GET", "POST", "PUT", "PATCH", "DELETE" }
    [] t = "CheckVerification" ->
         { "pending", "sent", "expired", "failure", "received",
           "too_many_attempts", "approved" }

\* The enum field has a default (CheckVerification.status = Field(None))
EnumHasDefault(t) == t = "CheckVerification"

\* Strings tried for an enum field
WireStrings ==
  { "sent", "SENT", "Sent", "pending", "accepted", "ACCEPTED", "approved",
    "none", "None", "GET", "get", "bogus", "" }

\* str.lower() on the strings above
Lower(str) ==
  CASE str \in { "SENT", "Sent" } -> "sent"
    [] str = "ACCEPTED" -> "accepted"
    [] str = "None" -> "none"
    [] str = "GET" -> "get"
    [] str = "POST" -> "post"
    [] str = "PUT" -> "put"
    [] str = "PATCH" -> "patch"
    [] str = "DELETE" -> "delete"
    [] OTHER -> str

\* (variant: the wire values are matched without regard to case)
EnumAcceptsAnyCase(t, str) == Lower(str) \in { Lower(v) : v \in EnumWireValues(t) }

\* pydantic's validation of a string against a str-valued Enum or a
\* Literal: the string must equal one of the values
EnumAccepts(t, str) == str \in EnumWireValues(t)

WireObjects(t) ==
  [ id : 1..MaxId, valid : BOOLEAN, enum : WireStrings \cup { NoneStr },
    nested : IF t = "Message" THEN WireStrings \cup { NoneStr } ELSE { NoneStr } ]

\* The entity T(**obj) builds
ParsedEntity(t, obj) ==
  [ type |-> t, id |-> obj.id, enum |-> obj.enum, nested |-> obj.nested ]

\* T(**obj) in types.py
ParseObject(t, obj) ==
  IF /\ obj.valid
     /\ IF obj.enum = NoneStr THEN EnumHasDefault(t) ELSE EnumAccepts(t, obj.enum)
     /\ obj.nested = NoneStr \/ EnumAccepts("DeliveryMessage", obj.nested)
    THEN Returned(<< ParsedEntity(t, obj) >>)
    ELSE Raised("ValidationError")


\* ------------------------------------------------------------------------
\* Arguments of an invocation
\* ------------------------------------------------------------------------
EmptyDict == [ k \in {} |-> None ]

\* limit/offset None: the caller does not pass the argument.
\* kwargs: the keyword arguments from which the request entity is built, or
\* the update dict.
Args(limit, offset, status, gte, lte, path_exists, output, kwargs) ==
  [ limit |-> limit, offset |-> offset, status |-> status,
    sent_at__gte |-> gte, sent_at__lte |-> lte,
    path_exists |-> path_exists, output |-> output, kwargs |-> kwargs ]

NoArgs == Args(None, None, NoneStr, NoneStr, NoneStr, FALSE, "table", EmptyDict)

Limits == { None, 5 }
Offsets == { None, 2 }
StatusFilters == { NoneStr, "", "sent" }
GteFilters == { NoneStr, "", "2025-01-01" }
LteFilters == { NoneStr, "", "2025-01-31" }
Outputs == { "table", "json" }

\* Python's default arguments (limit: int = 10, offset: int = 0) and typer's
\* Option(10) / Option(0)
EffLimit(a) == IF a.limit = None THEN DefaultLimit ELSE a.limit
EffOffset(a) == IF a.offset = None THEN DefaultOffset ELSE a.offset

\* Truth value of an Optional[str]: None and "" are false
Truthy(s) == s # NoneStr /\ s # ""

\* Keyword arguments tried for each request entity, around the limits of
\* its fields
CandidateKwargs(t) ==
  CASE t = "CreateContact" ->
         [ numero : { 128, 129 }, name : { None, 400, 401 }, groups : { 0, 2 } ]
    [] t = "CreateMessage" ->
         [ sender_name : { 11, 12 }, to : { 1, 10, 11 }, message : { 665, 666 } ]
    [] t = "CreateExtension" ->
         [ name : { 30, 31 }, category : { 5 }, description : { 400, 401 },
           base_api_url : { 0, 1 }, auth_type : { 1, 3, 4 }, is_paid : { 0, 1 },
           documentation_url : { None, 0, 1 }, website_url : { None, 1 } ]
    [] t = "RequestVerification" ->
         [ to : { 128, 129 }, message : { None, 153, 154 },
           sender_name : { None, 12 }, expiry_time : { None, 4, 5, 30, 31 },
           attempts : { None, 2, 3, 10, 11 }, code_length : { None, 3, 4, 8, 9 } ]
    [] t = "CheckVerification" ->
         [ code : { 999, 1000, 999999, 1000000 } ]
    [] t = "ExtensionAction" ->
         [ actionid : { 1 }, name : { 100 }, method : { 1, 5 },
           endpoint : { 255 }, description : { 200 } ]

\* Keyword arguments that leave out every field that has a default
RequiredOnly(t) ==
  { [ f \in { g \in DOMAIN FieldsOf(t) : FieldsOf(t)[g].default = NoDefault }
        |-> kw[f] ] : kw \in CandidateKwargs(t) }

\* Keyword arguments of a direct construction T(**kwargs)
InputsOf(t) == CandidateKwargs(t) \cup RequiredOnly(t)

\* Options of "extensions update"; each is None, "" (length 0) or a value
UpdateOptions ==
  [ name : { None, 0, 5 }, description : { None, 5 }, base_api_url : { None, 1 },
    docs_url : { None, 1 }, website_url : { None, 1 } ]

\* Value of the option that feeds key k of update_data
OptionFor(o, k) == IF k = "documentation_url" THEN o.docs_url ELSE o[k]

\* (variant: one key per option that is not None, "" included)
UpdateDataNotNone(o) ==
  [ k \in { j \in { "name", "description", "base_api_url", "documentation_url",
                    "website_url" } : OptionFor(o, j) # None }
    |-> OptionFor(o, k) ]

\* update_data of the update command: one key per option that is truthy
UpdateData(o) ==
  [ k \in { j \in { "name", "description", "base_api_url", "documentation_url",
                    "website_url" } : OptionFor(o, j) > 0 }
    |-> OptionFor(o, k) ]

\* The request entity class each write operation takes
RequestTypeOf(op) ==
  CASE op = "create_extension" -> "CreateExtension"
    [] op = "create_action" -> "ExtensionAction"
    [] op = "send_message" -> "CreateMessage"
    [] op = "create_contact" -> "CreateContact"
    [] op = "create_verification" -> "RequestVerification"
    [] op = "check_verification" -> "CheckVerification"

\* Keyword arguments from which T(**kwargs) builds an entity
ValidInputs(t) == { kw \in InputsOf(t) : Validates(t, kw) }

\* Arguments of a direct call of a client method
CallArgs(op) ==
  IF op = "list_messages"
    THEN { Args(l, o, s, g, e, FALSE, "table", EmptyDict) :
             l \in Limits, o \in Offsets, s \in StatusFilters,
             g \in GteFilters, e \in LteFilters }
  ELSE IF op \in ListOps
    THEN { Args(l, o, NoneStr, NoneStr, NoneStr, FALSE, "table", EmptyDict) :
             l \in Limits, o \in Offsets }
  ELSE IF op = "upload_logo"
    THEN { [ NoArgs EXCEPT !.path_exists = b ] : b \in BOOLEAN }
  ELSE IF op \in EntityBodyOps
    THEN { [ NoArgs EXCEPT !.kwargs = kw ] : kw \in ValidInputs(RequestTypeOf(op)) }
  ELSE IF op \in DictBodyOps
    THEN { [ NoArgs EXCEPT !.kwargs = UpdateData(o) ] : o \in UpdateOptions }
  ELSE { NoArgs }

\* ------------------------------------------------------------------------
\* Requests
\* ------------------------------------------------------------------------
\* (variant: filters are tested with "is not None", so "" is sent)
ParamsOfNotNone(op, a) ==
  IF op \notin ListOps THEN EmptyDict
  ELSE LET filters == IF op = "list_messages"
                        THEN { k \in { "status", "sent_at__gte", "sent_at__lte" } :
                                 a[k] # NoneStr }
                        ELSE {}
       IN  [ k \in { "limit", "offset" } \cup filters |->
               IF k = "limit" THEN EffLimit(a)
               ELSE IF k = "offset" THEN EffOffset(a)
               ELSE a[k] ]

\* params= of the list methods
ParamsOf(op, a) ==
  IF op \notin ListOps THEN EmptyDict
  ELSE LET filters == IF op = "list_messages"
                        THEN { k \in { "status", "sent_at__gte", "sent_at__lte" } :
                                 Truthy(a[k]) }
                        ELSE {}
       IN  [ k \in { "limit", "offset" } \cup filters |->
               IF k = "limit" THEN EffLimit(a)
               ELSE IF k = "offset" THEN EffOffset(a)
               ELSE a[k] ]

\* json= of the write methods; data is the entity or the dict passed in
JsonOf(op, data) ==
  IF op \in EntityBodyOps THEN ModelDumpExcludeNone(data)
  ELSE IF op \in DictBodyOps THEN data
  ELSE EmptyDict

EncodingOf(op) ==
  IF op \in EntityBodyOps \cup DictBodyOps THEN "json"
  ELSE IF op = "upload_logo" THEN "multipart"
  ELSE "none"

RequestOf(op, a, data) ==
  [ method |-> MethodOf(op), path |-> PathOf(op), params |-> ParamsOf(op, a),
    encoding |-> EncodingOf(op), json |-> JsonOf(op, data) ]

\* (variant: the existence of the logo file is not checked)
LocalPreconditionUnchecked(op, a) == FALSE

\* upload_logo: if not logo_path.exists(): raise FileNotFoundError
LocalPreconditionFails(op, a) == op = "upload_logo" /\ ~ a.path_exists


\* ------------------------------------------------------------------------
\* The configuration file (src/config/settings.py)
\* ------------------------------------------------------------------------
SidValues == { "", "sid", "sid2" }
TokValues == { "", "tok", "tok2" }

\* Credentials(service_id, secret_token); NoneStr is None
Credentials(sid, tok) == [ service_id |-> sid, secret_token |-> tok ]

CredentialValues ==
  [ service_id : { NoneStr } \cup SidValues, secret_token : { NoneStr } \cup TokValues ]

\* Content of config.json.
\* kind: "missing"     the file does not exist
\*       "notjson"     text that is not JSON
\*       "notmapping"  JSON that is not an object, such as []
\*       "doc"         {"service_id": ..., "secret_token": ...}, null for None
File(kind, cr) == [ kind |-> kind, creds |-> cr ]

FileStates ==
  { File(k, Credentials(NoneStr, NoneStr)) :
      k \in { "missing", "notjson", "notmapping" } }
  \cup { File("doc", cr) : cr \in CredentialValues }

\* Outcome of load_credentials
Loaded(cr) == [ raised |-> FALSE, error |-> "", creds |-> cr ]
LoadRaised(error) ==
  [ raised |-> TRUE, error |-> error, creds |-> Credentials(NoneStr, NoneStr) ]

\* ConfigManager.load_credentials: only json.JSONDecodeError and OSError are
\* caught.  Credentials(**data) raises TypeError if data is not a mapping.
LoadCredentials(file) ==
  CASE file.kind = "missing" -> Loaded(Credentials(NoneStr, NoneStr))
    [] file.kind = "notjson" -> Loaded(Credentials(NoneStr, NoneStr))
    [] file.kind = "notmapping" -> LoadRaised("TypeError")
    [] file.kind = "doc" -> Loaded(file.creds)

\* Python's "a or b" on Optional[str]
Or(a, b) == IF Truthy(a) THEN a ELSE b

\* (variant: an argument replaces the stored value unless it is None, so
\* that the empty string is stored)
SaveCredentialsUnlessNone(file, sid, tok, writable) ==
  LET current == LoadCredentials(file)
  IN  IF current.raised
        THEN [ raised |-> TRUE, error |-> current.error, file |-> file ]
      ELSE IF ~ writable
        THEN [ raised |-> TRUE, error |-> "OSError", file |-> file ]
      ELSE [ raised |-> FALSE, error |-> "",
             file |-> File("doc",
                           Credentials(IF sid # NoneStr THEN sid
                                       ELSE current.creds.service_id,
                                       IF tok # NoneStr THEN tok
                                       ELSE current.creds.secret_token)) ]

\* (variant: the file is rewritten from the arguments alone)
SaveCredentialsOverwrite(file, sid, tok, writable) ==
  [ raised |-> FALSE, error |-> "", file |-> File("doc", Credentials(sid, tok)) ]

\* ConfigManager.save_credentials: the file after the call, or the
\* exception that ended it and left the file as it was: that of
\* load_credentials, or the OSError of config_file.open("w") when the file
\* cannot be written (writable is false)
SaveCredentials(file, sid, tok, writable) ==
  LET current == LoadCredentials(file)
  IN  IF current.raised
        THEN [ raised |-> TRUE, error |-> current.error, file |-> file ]
      ELSE IF ~ writable
        THEN [ raised |-> TRUE, error |-> "OSError", file |-> file ]
      ELSE [ raised |-> FALSE, error |-> "",
             file |-> File("doc", Credentials(Or(sid, current.creds.service_id),
                                              Or(tok, current.creds.secret_token))) ]

\* Arguments of the config command
ConfigArgs ==
  [ command : { "set", "get" }, key : { "service_id" }, value : SidValues ]
  \cup [ command : { "set", "get" }, key : { "secret_token" }, value : TokValues ]
  \cup [ command : { "set", "get" }, key : { "token" }, value : { "tok" } ]

\* ------------------------------------------------------------------------
\* Commands (src/commands/*.py)
\* ------------------------------------------------------------------------
Commands ==
  { "account balance", "extensions list", "extensions create",
    "extensions get", "extensions update", "extensions upload-logo",
    "extensions publish", "messages list", "messages send", "messages get",
    "contacts list", "contacts add", "groups list", "sendernames list",
    "verifications create", "verifications verify" }

\* The client method each command calls
OpOfCmd(c) ==
  CASE c = "account balance" -> "get_account"
    [] c = "extensions list" -> "list_extensions"
    [] c = "extensions create" -> "create_extension"
    [] c = "extensions get" -> "get_extension"
    [] c = "extensions update" -> "update_extension"
    [] c = "extensions upload-logo" -> "upload_logo"
    [] c = "extensions publish" -> "publish_action"
    [] c = "messages list" -> "list_messages"
    [] c = "messages send" -> "send_message"
    [] c = "messages get" -> "get_message"
    [] c = "contacts list" -> "list_contacts"
    [] c = "contacts add" -> "create_contact"
    [] c = "groups list" -> "list_groups"
    [] c = "sendernames list" -> "list_sender_names"
    [] c = "verifications create" -> "create_verification"
    [] c = "verifications verify" -> "check_verification"

ListCmds ==
  { "extensions list", "messages list", "contacts list", "groups list",
    "sendernames list" }

\* Commands that build a request entity from the user's input
BuildCmds ==
  { "extensions create", "messages send", "contacts add",
    "verifications create", "verifications verify" }

\* Commands with an --output option
OutputCmds ==
  ListCmds \cup { "extensions get", "messages get", "verifications create",
                  "verifications verify" }

\* Command-line inputs of each command
RunArgs(c) ==
  IF c = "messages list"
    THEN { Args(l, o, s, NoneStr, NoneStr, FALSE, out, EmptyDict) :
             l \in Limits, o \in Offsets, s \in StatusFilters, out \in Outputs }
  ELSE IF c \in ListCmds
    THEN { Args(l, o, NoneStr, NoneStr, NoneStr, FALSE, out, EmptyDict) :
             l \in Limits, o \in Offsets, out \in Outputs }
  ELSE IF c \in BuildCmds
    THEN { [ NoArgs EXCEPT !.kwargs = kw, !.output = out ] :
             kw \in CandidateKwargs(RequestTypeOf(OpOfCmd(c))),
             out \in IF c \in OutputCmds THEN Outputs ELSE { "table" } }
  ELSE IF c = "extensions update"
    THEN { [ NoArgs EXCEPT !.kwargs = o ] : o \in UpdateOptions }
  ELSE IF c = "extensions upload-logo"
    THEN { [ NoArgs EXCEPT !.path_exists = b ] : b \in BOOLEAN }
  ELSE IF c \in OutputCmds
    THEN { [ NoArgs EXCEPT !.output = out ] : out \in Outputs }
  ELSE { NoArgs }

InRange(v, lo, hi) == v = None \/ (lo <= v /\ v <= hi)

\* typer's own checks of the options, made before the command body runs:
\* Option(min=, max=) of "verifications create", the AuthType choice of
\* "extensions create"
TyperAccepts(c, kw) ==
  CASE c = "verifications create" ->
         /\ InRange(kw.expiry_time, 5, 30)
         /\ InRange(kw.attempts, 3, 10)
         /\ InRange(kw.code_length, 4, 8)
    [] c = "extensions create" -> kw.auth_type \in 1..3
    [] OTHER -> TRUE

\* (variant: "is None" tests, which let an empty string through)
CredentialsNotNone(cr) == cr.service_id # NoneStr /\ cr.secret_token # NoneStr

\* if not creds.service_id or not creds.secret_token
CredentialsConfigured(cr) == Truthy(cr.service_id) /\ Truthy(cr.secret_token)

\* What a command leaves behind: the lines it printed, its exit status and
\* the exception that escaped it, if any
Line(text, arg, n) == [ text |-> text, arg |-> arg, n |-> n ]
Out(lines, code, uncaught) ==
  [ lines |-> lines, code |-> code, uncaught |-> uncaught ]

CredentialLines ==
  << Line("Error: API credentials not configured.", "", 0),
     Line("Please configure your credentials using:", "", 0),
     Line("  nimbasms config set service_id YOUR_SERVICE_ID", "", 0),
     Line("  nimbasms config set secret_token YOUR_SECRET_TOKEN", "", 0) >>

\* _check_credentials / _get_client with credentials missing: typer.Exit(1)
\* is raised.  In balance it is raised outside the try block; elsewhere the
\* "except Exception" clause catches it (Exit is a RuntimeError), prints it
\* and exits with 1; "verifications create" re-raises it.
OnMissingCredentials(c) ==
  IF c \in { "account balance", "verifications create" }
    THEN Out(CredentialLines, 1, "")
    ELSE Out(CredentialLines \o << Line("Error: {str(e)}", "1", 0) >>, 1, "")

\* load_credentials raised inside _check_credentials / _get_client: balance
\* calls it outside its try block, "verifications create" re-raises, the
\* other commands print the exception and exit with 1
OnLoadError(c, error) ==
  IF c \in { "account balance", "verifications create" }
    THEN Out(<< >>, 1, error)
    ELSE Out(<< Line("Error: {str(e)}", error, 0) >>, 1, "")

\* e.response.json().get('detail', str(e)) printed after "Error: "
OnHTTPStatusError(resp) ==
  CASE resp.body.kind = "notjson" -> Out(<< >>, 1, "JSONDecodeError")
    [] resp.body.kind = "array" -> Out(<< >>, 1, "AttributeError")
    [] resp.body.kind = "detail" ->
         Out(<< Line("Error: {detail}", resp.body.detail, 0) >>, 1, "")
    [] OTHER -> Out(<< Line("Error: {detail}", "str(e)", 0) >>, 1, "")

\* The except clauses of a command, for the exception described by r
OnException(c, r) ==
  IF r.error = "HTTPStatusError"
    THEN IF c = "account balance" /\ r.response.status = 401
           THEN Out(<< Line("Error: Invalid credentials", "", 0) >>, 1, "")
         ELSE IF c = "account balance" /\ r.response.status = 429
           THEN Out(<< Line("Error: Rate limit exceeded", "", 0) >>, 1, "")
         ELSE OnHTTPStatusError(r.response)
  ELSE IF c = "extensions upload-logo" /\ r.error = "FileNotFoundError"
    THEN Out(<< Line("Error: Logo file not found: {logo_path}", "", 0) >>, 1, "")
  ELSE IF c = "verifications create"
    THEN Out(<< >>, 1, r.error)
  ELSE IF c = "account balance"
    THEN Out(<< Line("Unexpected error: {str(e)}", r.error, 0) >>, 1, "")
  ELSE Out(<< Line("Error: {str(e)}", r.error, 0) >>, 1, "")

\* The lines of the verify command for a check result with the given status
VerifyLines(status) ==
  << Line("Status: {status}", status, 0) >>
  \o CASE status = "approved" -> << Line("Code verified successfully!", "", 0) >>
       [] status = "expired" -> << Line("Code has expired.", "", 0) >>
       [] status = "too_many_attempts" -> << Line("Too many failed attempts.", "", 0) >>
       [] status = "failure" -> << Line("Invalid code.", "", 0) >>
       [] OTHER -> << >>

\* What a command prints when its client method returned
OnReturn(c, a, r) ==
  LET n == Len(r.entities)
  IN  IF c \in ListCmds
        THEN IF n = 0 THEN Out(<< Line("No {entities} found.", "", 0) >>, 0, "")
             ELSE IF a.output = "json" THEN Out(<< Line("{json array}", "", n) >>, 0, "")
             ELSE Out(<< Line("{listing}", "", n) >>, 0, "")
      ELSE IF c \in OutputCmds /\ a.output = "json"
        THEN Out(<< Line("{json object}", "", 1) >>, 0, "")
      ELSE IF c = "verifications verify" /\ "status" \in DOMAIN r.entities[1]
        THEN Out(VerifyLines(r.entities[1].status), 0, "")
      ELSE CASE c = "account balance" -> Out(<< Line("{table}", "", 1) >>, 0, "")
             [] c = "extensions create" ->
                  Out(<< Line("Extension created successfully!", "", 0) >>, 0, "")
             [] c = "extensions update" ->
                  Out(<< Line("Extension updated successfully!", "", 0) >>, 0, "")
             [] c = "extensions upload-logo" ->
                  Out(<< Line("Logo uploaded successfully!", "", 0) >>, 0, "")
             [] c = "extensions publish" ->
                  Out(<< Line("Extension published successfully!", "", 0) >>, 0, "")
             [] c = "messages send" ->
                  Out(<< Line("Message sent successfully!", "", 0) >>, 0, "")
             [] c = "contacts add" ->
                  Out(<< Line("Contact added successfully!", "", 0) >>, 0, "")
             [] c = "verifications create" ->
                  Out(<< Line("Verification request created successfully!", "", 0) >>, 0, "")
             [] OTHER -> Out(<< Line("{details}", "", 1) >>, 0, "")

\* The end of a command whose client method finished with result r
OnResult(c, a, r) ==
  IF r.outcome = "returned" THEN OnReturn(c, a, r) ELSE OnException(c, r)

NoOut == Out(<< >>, -1, "")


\* ------------------------------------------------------------------------
\* State
\* ------------------------------------------------------------------------
VARIABLES
  config_file,   \* the content of config.json; it outlives the invocations
  file_before,   \* its content when the invocation started (set by the
                 \* invocations of save_credentials and of the config command)
  saves,         \* the calls of save_credentials made, in order
  creds,         \* what config.load_credentials() returned
  pc,            \* "idle", "await" (request sent, no answer yet), "done"
  layer,         \* "client": a method of APIClient was called directly;
                 \* "command": a command of the CLI was run
  cmd,           \* the command that was run, "" for a direct call
  op,            \* the method that was called, "" if none was
  args,          \* the arguments of the invocation
  client_built,  \* an APIClient was constructed for this invocation
  requests,      \* the HTTP requests handed to the transport, in order
  response,      \* the answer of the server
  result,        \* how the client method ended
  out,           \* how the command ended
  entity,        \* the request entity built in this invocation
  wire,          \* the JSON object a response entity was parsed from
  procs          \* the processes that run save_credentials at the same time,
                 \* each with its position and its local variables

vars ==
  << config_file, file_before, saves, creds, pc, layer, cmd, op, args,
     client_built, requests, response, result, out, entity, wire, procs >>

\* What an invocation that does not write the configuration leaves alone
configVars == << config_file, file_before, saves, procs >>

\* A JSON object to be parsed as an entity of class t
Wire(t, obj) == [ type |-> t, obj |-> obj ]
NoWire == Wire("", [ id |-> 0, valid |-> FALSE, enum |-> NoneStr, nested |-> NoneStr ])

\* An entity of class t with the given field values
Entity(t, fields) == [ type |-> t, fields |-> fields ]
NoEntity == Entity("", EmptyDict)

\* T(**kw): the entity, or no field values if pydantic rejects kw
Built(t, kw) ==
  IF Validates(t, kw) THEN Entity(t, Construct(t, kw)) ELSE Entity(t, EmptyDict)

\* No credentials were loaded in this invocation
NotLoaded == Credentials("<not loaded>", "<not loaded>")

\* load_credentials raised
LoadFailed == Credentials("<raised>", "<raised>")

\* No file content was recorded
NoFile == File("", Credentials(NoneStr, NoneStr))

\* No processes run side by side: the invocations follow one another
NoProcs == << >>

\* The configuration file is in any state the user's disk can be in
Init ==
  /\ config_file \in FileStates
  /\ file_before = NoFile
  /\ saves = << >>
  /\ creds = NotLoaded
  /\ pc = "idle"
  /\ layer = "none"
  /\ cmd = ""
  /\ op = ""
  /\ args = NoArgs
  /\ client_built = FALSE
  /\ requests = << >>
  /\ response = NoResponse
  /\ result = Pending
  /\ out = NoOut
  /\ entity = NoEntity
  /\ wire = NoWire
  /\ procs = NoProcs

\* A client method up to the point where it waits for the server: it fails
\* its local precondition, or the encoding of its JSON body fails while the
\* request is built, or it hands exactly one request to the transport.
MethodStart(o, a, data) ==
  IF LocalPreconditionFails(o, a)
    THEN [ requests |-> << >>, result |-> Raised("FileNotFoundError") ]
  ELSE IF o \in EntityBodyOps /\ ~ JsonEncodes(RequestTypeOf(o), JsonOf(o, data))
    THEN [ requests |-> << >>, result |-> Raised("TypeError") ]
  ELSE [ requests |-> << RequestOf(o, a, data) >>, result |-> Pending ]

\* The construction T(**kw) of a request entity, on its own
Build(t, kw) ==
  /\ pc = "idle"
  /\ pc' = "done"
  /\ layer' = "construct"
  /\ args' = [ NoArgs EXCEPT !.kwargs = kw ]
  /\ entity' = Built(t, kw)
  /\ result' = IF Validates(t, kw) THEN Returned(<< >>) ELSE Raised("ValidationError")
  /\ UNCHANGED << creds, cmd, op, client_built, requests, response, out, wire >>
  /\ UNCHANGED configVars

\* T(**mapping) for the mapping a request entity was dumped to
Reparse(t, mapping) ==
  IF Validates(t, mapping)
    THEN Returned(<< Entity(t, Construct(t, mapping)) >>)
    ELSE Raised("ValidationError")

\* A request entity is built, dumped with model_dump(exclude_none=True) and
\* built again from the dumped mapping
RoundTrip(t, kw) ==
  /\ pc = "idle"
  /\ pc' = "done"
  /\ layer' = "roundtrip"
  /\ args' = [ NoArgs EXCEPT !.kwargs = kw ]
  /\ entity' = Built(t, kw)
  /\ result' = IF Validates(t, kw)
                 THEN Reparse(t, ModelDumpExcludeNone(Construct(t, kw)))
                 ELSE Raised("ValidationError")
  /\ UNCHANGED << creds, cmd, op, client_built, requests, response, out, wire >>
  /\ UNCHANGED configVars

\* The parsing T(**obj) of a JSON object as a response entity, on its own
Parse(t, obj) ==
  /\ pc = "idle"
  /\ pc' = "done"
  /\ layer' = "parse"
  /\ wire' = Wire(t, obj)
  /\ result' = ParseObject(t, obj)
  /\ UNCHANGED << creds, cmd, op, args, client_built, requests, response, out,
                  entity >>
  /\ UNCHANGED configVars

\* Values a caller may assign to field f of an entity of class t
AssignableValues(t, f) ==
  IF f \in DOMAIN CHOOSE kw \in CandidateKwargs(t) : TRUE
    THEN { kw[f] : kw \in CandidateKwargs(t) }
    ELSE {}

\* entity.f = v on an entity that was built.  The classes of types.py set no
\* model_config, so they are neither frozen nor validate_assignment:
\* BaseModel.__setattr__ stores the value as it is.
SetAttr(f, v) ==
  /\ pc = "done"
  /\ layer = "construct"
  /\ result.outcome = "returned"
  /\ f \in DOMAIN entity.fields
  /\ v \in AssignableValues(entity.type, f)
  /\ layer' = "setattr"
  /\ entity' = [ entity EXCEPT !.fields[f] = v ]
  /\ UNCHANGED << creds, pc, cmd, op, args, client_built, requests, response,
                  result, out, wire >>
  /\ UNCHANGED configVars

\* A direct call client.<o>(...) on a constructed APIClient; the caller
\* builds the request entity of a write method from valid keyword arguments
Call(o, a) ==
  /\ pc = "idle"
  /\ LET e == IF o \in EntityBodyOps THEN Built(RequestTypeOf(o), a.kwargs)
              ELSE NoEntity
         m == MethodStart(o, a, IF o \in EntityBodyOps THEN e.fields ELSE a.kwargs)
     IN  /\ entity' = e
         /\ requests' = m.requests
         /\ result' = m.result
         /\ pc' = IF m.result = Pending THEN "await" ELSE "done"
  /\ layer' = "client"
  /\ cmd' = ""
  /\ op' = o
  /\ args' = a
  /\ client_built' = TRUE
  /\ UNCHANGED << creds, response, out, wire >>
  /\ UNCHANGED configVars

\* The data a command passes to its client method
DataOf(c, a) ==
  IF c \in BuildCmds THEN Construct(RequestTypeOf(OpOfCmd(c)), a.kwargs)
  ELSE IF c = "extensions update" THEN UpdateData(a.kwargs)
  ELSE EmptyDict

\* A command from its start to the point where its client method waits for
\* the server, or to its end if it ends before.  The steps are in the order
\* of the code: typer's parsing of the options, _get_client(), the
\* construction of the request entity, the call of the client method.
\* _get_client() loads the configuration file.
Run(c, a) ==
  LET ld == LoadCredentials(config_file)
      cr == ld.creds
  IN
  /\ pc = "idle"
  /\ layer' = "command"
  /\ cmd' = c
  /\ args' = a
  /\ UNCHANGED << response, wire >>
  /\ UNCHANGED configVars
  /\ creds' = IF ~ TyperAccepts(c, a.kwargs) THEN NotLoaded
              ELSE IF ld.raised THEN LoadFailed
              ELSE cr
  /\ entity' = IF c \in BuildCmds /\ TyperAccepts(c, a.kwargs)
                    /\ ~ ld.raised /\ CredentialsConfigured(cr)
                 THEN Built(RequestTypeOf(OpOfCmd(c)), a.kwargs)
                 ELSE NoEntity
  /\ IF ~ TyperAccepts(c, a.kwargs)
       THEN /\ out' = Out(<< Line("Usage: invalid value for option", "", 0) >>, 2, "")
            /\ pc' = "done"
            /\ op' = ""
            /\ client_built' = FALSE
            /\ requests' = << >>
            /\ result' = Pending
     ELSE IF ld.raised
       THEN /\ out' = OnLoadError(c, ld.error)
            /\ pc' = "done"
            /\ op' = ""
            /\ client_built' = FALSE
            /\ requests' = << >>
            /\ result' = Pending
     ELSE IF ~ CredentialsConfigured(cr)
       THEN /\ out' = OnMissingCredentials(c)
            /\ pc' = "done"
            /\ op' = ""
            /\ client_built' = FALSE
            /\ requests' = << >>
            /\ result' = Pending
     ELSE IF c \in BuildCmds /\ ~ Validates(RequestTypeOf(OpOfCmd(c)), a.kwargs)
       THEN /\ out' = OnException(c, Raised("ValidationError"))
            /\ pc' = "done"
            /\ op' = ""
            /\ client_built' = TRUE
            /\ requests' = << >>
            /\ result' = Pending
     ELSE IF c = "extensions update" /\ UpdateData(a.kwargs) = EmptyDict
       THEN /\ out' = Out(<< Line("No updates provided.", "", 0) >>, 0, "")
            /\ pc' = "done"
            /\ op' = ""
            /\ client_built' = TRUE
            /\ requests' = << >>
            /\ result' = Pending
     ELSE IF c = "extensions publish"
       \* client.publish_action(extension_id): action_id is missing
       THEN /\ out' = OnException(c, Raised("TypeError"))
            /\ pc' = "done"
            /\ op' = ""
            /\ client_built' = TRUE
            /\ requests' = << >>
            /\ result' = Pending
     ELSE LET m == MethodStart(OpOfCmd(c), a, DataOf(c, a))
          IN  /\ op' = OpOfCmd(c)
              /\ client_built' = TRUE
              /\ requests' = m.requests
              /\ result' = m.result
              /\ IF m.result = Pending
                   THEN pc' = "await" /\ out' = NoOut
                   ELSE pc' = "done" /\ out' = OnException(c, m.result)

\* A direct call of config.load_credentials()
Load ==
  /\ pc = "idle"
  /\ pc' = "done"
  /\ layer' = "settings"
  /\ op' = "load_credentials"
  /\ LET ld == LoadCredentials(config_file)
     IN  /\ creds' = IF ld.raised THEN LoadFailed ELSE ld.creds
         /\ result' = IF ld.raised THEN Raised(ld.error) ELSE Returned(<< >>)
  /\ UNCHANGED << cmd, args, client_built, requests, response, out, entity, wire >>
  /\ UNCHANGED configVars

\* A direct call of config.save_credentials(service_id=sid, secret_token=tok)
Save(sid, tok, writable) ==
  /\ pc = "idle"
  /\ pc' = "done"
  /\ layer' = "settings"
  /\ op' = "save_credentials"
  /\ file_before' = config_file
  /\ saves' = << Credentials(sid, tok) >>
  /\ LET sv == SaveCredentials(config_file, sid, tok, writable)
     IN  /\ config_file' = sv.file
         /\ result' = IF sv.raised THEN Raised(sv.error) ELSE Returned(<< >>)
  /\ UNCHANGED << creds, cmd, args, client_built, requests, response, out,
                  entity, wire, procs >>

ConfigUsageLines ==
  << Line("Usage: nimbasms config set <key> <value>", "", 0),
     Line("Available keys:", "", 0),
     Line("  service_id     - Your service identifier", "", 0),
     Line("  secret_token   - Your secret token", "", 0) >>

\* The config command: nimbasms config <command> <key> <value>
Config(ca, writable) ==
  /\ pc = "idle"
  /\ pc' = "done"
  /\ layer' = "command"
  /\ cmd' = "config"
  /\ args' = [ NoArgs EXCEPT !.kwargs = ca ]
  /\ file_before' = config_file
  /\ IF ca.command # "set"
       THEN /\ out' = Out(<< Line("Unknown command: {command}", ca.command, 0) >>
                            \o ConfigUsageLines, 1, "")
            /\ saves' = << >>
            /\ UNCHANGED config_file
     ELSE IF ca.key \notin { "service_id", "secret_token" }
       \* typer.Exit(1) is raised inside the try block and caught by
       \* "except Exception", which prints it and exits with 1
       THEN /\ out' = Out(<< Line("Unknown configuration key: {key}", ca.key, 0),
                              Line("Error: {str(e)}", "1", 0) >>, 1, "")
            /\ saves' = << >>
            /\ UNCHANGED config_file
     ELSE LET sid == IF ca.key = "service_id" THEN ca.value ELSE NoneStr
              tok == IF ca.key = "secret_token" THEN ca.value ELSE NoneStr
              sv == SaveCredentials(config_file, sid, tok, writable)
          IN  /\ saves' = << Credentials(sid, tok) >>
              /\ config_file' = sv.file
              /\ out' = IF sv.raised
                          THEN Out(<< Line("Error: {str(e)}", sv.error, 0) >>, 1, "")
                        ELSE IF ca.key = "service_id"
                          THEN Out(<< Line("Service ID configured successfully!", "", 0) >>,
                                   0, "")
                          ELSE Out(<< Line("Secret token configured successfully!", "", 0) >>,
                                   0, "")
  /\ UNCHANGED << creds, op, client_built, requests, response, result, entity,
                  wire, procs >>

\* The server's answer arrives: the client method finishes, and so does the
\* command that called it.
Respond(r) ==
  /\ pc = "await"
  /\ response' = r
  /\ result' = Process(op, r)
  /\ out' = IF layer = "command" THEN OnResult(cmd, args, Process(op, r)) ELSE NoOut
  /\ pc' = "done"
  /\ UNCHANGED << creds, layer, cmd, op, args, client_built, requests, entity,
                  wire >>
  /\ UNCHANGED configVars

\* The invocation is over; the next one starts afresh
Finish ==
  /\ pc = "done"
  /\ pc' = "idle"
  /\ layer' = "none"
  /\ cmd' = ""
  /\ op' = ""
  /\ args' = NoArgs
  /\ client_built' = FALSE
  /\ requests' = << >>
  /\ response' = NoResponse
  /\ result' = Pending
  /\ out' = NoOut
  /\ creds' = NotLoaded
  /\ entity' = NoEntity
  /\ wire' = NoWire
  /\ file_before' = NoFile
  /\ saves' = << >>
  /\ UNCHANGED << config_file, procs >>

\* The guards on pc are those of the actions, repeated here so that the
\* argument sets are enumerated only in the states where the action can fire.
Next ==
  \/ pc = "idle" /\ \E t \in RequestTypes : \E kw \in InputsOf(t) : Build(t, kw)
  \/ pc = "idle" /\ \E t \in RequestTypes : \E kw \in InputsOf(t) : RoundTrip(t, kw)
  \/ pc = "done" /\ layer = "construct" /\
       \E f \in DOMAIN entity.fields :
         \E v \in AssignableValues(entity.type, f) : SetAttr(f, v)
  \/ pc = "idle" /\ \E t \in EnumTypes : \E obj \in WireObjects(t) : Parse(t, obj)
  \/ pc = "idle" /\ \E o \in Ops : \E a \in CallArgs(o) : Call(o, a)
  \/ pc = "idle" /\ \E c \in Commands : \E a \in RunArgs(c) : Run(c, a)
  \/ pc = "idle" /\ Load
  \/ pc = "idle" /\ \E sid \in { NoneStr } \cup SidValues :
                      \E tok \in { NoneStr } \cup TokValues :
                        \E writable \in BOOLEAN : Save(sid, tok, writable)
  \/ pc = "idle" /\ \E ca \in ConfigArgs : \E writable \in BOOLEAN : Config(ca, writable)
  \/ pc = "await" /\ \E r \in Responses : Respond(r)
  \/ Finish

Spec == Init /\ [][Next]_vars


\* ------------------------------------------------------------------------
\* Two processes that call save_credentials on the same configuration file
\* at the same time, as two "nimbasms config set" started together do: one
\* sets service_id, the other secret_token.  save_credentials takes no lock,
\* so the steps of the two calls interleave freely.  The steps of one call:
\*   "start"  -> load_credentials()                       -> "loaded"
\*   "loaded" -> config_file.open("w"), which empties it  -> "opened"
\*   "opened" -> json.dump(...) and the close of the file -> "done"
\* ------------------------------------------------------------------------
Procs == { 1, 2 }

\* A process about to call save_credentials(service_id=sid, secret_token=tok)
Proc(sid, tok) ==
  [ pc |-> "start", service_id |-> sid, secret_token |-> tok,
    new_creds |-> Credentials(NoneStr, NoneStr) ]

\* The file after open("w"): empty, which is not JSON
Truncated == File("notjson", Credentials(NoneStr, NoneStr))

ConcurrentInit ==
  /\ config_file \in FileStates
  /\ procs \in { << Proc(sid, NoneStr), Proc(NoneStr, tok) >> :
                   sid \in SidValues \ { "" }, tok \in TokValues \ { "" } }
  /\ file_before = config_file
  /\ saves = << >>
  /\ creds = NotLoaded
  /\ pc = "idle"
  /\ layer = "settings"
  /\ cmd = ""
  /\ op = "save_credentials"
  /\ args = NoArgs
  /\ client_built = FALSE
  /\ requests = << >>
  /\ response = NoResponse
  /\ result = Pending
  /\ out = NoOut
  /\ entity = NoEntity
  /\ wire = NoWire

\* What the concurrent calls leave alone
sequentialVars ==
  << file_before, saves, creds, pc, layer, cmd, op, args, client_built,
     requests, response, result, out, entity, wire >>

\* current = self.load_credentials(); new_creds = Credentials(...)
SaveLoad(p) ==
  /\ procs[p].pc = "start"
  /\ LET current == LoadCredentials(config_file)
     IN  procs' =
           IF current.raised
             THEN [ procs EXCEPT ![p].pc = "raised" ]
             ELSE [ procs EXCEPT
                      ![p].pc = "loaded",
                      ![p].new_creds =
                        Credentials(Or(procs[p].service_id, current.creds.service_id),
                                    Or(procs[p].secret_token, current.creds.secret_token)) ]
  /\ UNCHANGED config_file
  /\ UNCHANGED sequentialVars

\* with self.config_file.open("w") as f: the file is emptied
SaveOpen(p) ==
  /\ procs[p].pc = "loaded"
  /\ procs' = [ procs EXCEPT ![p].pc = "opened" ]
  /\ config_file' = Truncated
  /\ UNCHANGED sequentialVars

\* json.dump(new_creds.model_dump(), f, indent=2) and the close of f.  The
\* text is written from offset 0: onto an empty file it is the whole
\* content; onto the text another process wrote in between it is the whole
\* content if it is at least as long, and otherwise the tail of the other
\* text stays behind it and the file is not JSON any more.
SaveDump(p) ==
  /\ procs[p].pc = "opened"
  /\ procs' = [ procs EXCEPT ![p].pc = "done" ]
  /\ \/ config_file' = File("doc", procs[p].new_creds)
     \/ /\ config_file.kind = "doc"
        /\ config_file' = Truncated
  /\ UNCHANGED sequentialVars

ConcurrentNext ==
  \/ \E p \in Procs : SaveLoad(p)
  \/ \E p \in Procs : SaveOpen(p)
  \/ \E p \in Procs : SaveDump(p)

SpecConcurrent == ConcurrentInit /\ [][ConcurrentNext]_vars


\* ------------------------------------------------------------------------
\* Properties
\* ------------------------------------------------------------------------
\* A client method was entered in this invocation
MethodCalled == op \in Ops

\* The invocation got an HTTP response (not a transport failure)
GotResponse == pc = "done" /\ response # NoResponse /\ response # TransportFailure

\* C1: every call of upload_logo whose logo_path does not exist fails with
\* FileNotFoundError, and no HTTP request has been issued when it fails (nor
\* at any other moment of the call).
C1_UploadLogoMissingFile ==
  (op = "upload_logo" /\ ~ args.path_exists) =>
    /\ pc = "done"
    /\ result.outcome = "raised"
    /\ result.error = "FileNotFoundError"
    /\ requests = << >>
    /\ response = NoResponse

C1_Witness ==
  /\ pc = "done"
  /\ op = "upload_logo"
  /\ ~ args.path_exists
  /\ result.error = "FileNotFoundError"

\* The input of a command that builds a request entity violates a field
\* constraint (a length, a range or an enum membership)
InputViolatesConstraint ==
  /\ layer = "command"
  /\ LET kw == args.kwargs
         Over(v, max) == v > max
         Outside(v, lo, hi) == v # None /\ (v < lo \/ v > hi)
     IN  CASE cmd = "contacts add" -> Over(kw.numero, 128) \/ Over(kw.name, 400)
           [] cmd = "messages send" ->
                \/ Over(kw.sender_name, 11)
                \/ Over(kw.message, 665)
                \/ Outside(kw.to, 1, 10)
           [] cmd = "extensions create" ->
                \/ Over(kw.name, 30)
                \/ Over(kw.description, 400)
                \/ kw.base_api_url = 0
                \/ kw.documentation_url = 0
                \/ kw.website_url = 0
                \/ kw.auth_type \notin 1..3
           [] cmd = "verifications create" ->
                \/ Over(kw.to, 128)
                \/ Over(kw.message, 153)
                \/ Over(kw.sender_name, 11)
                \/ Outside(kw.expiry_time, 5, 30)
                \/ Outside(kw.attempts, 3, 10)
                \/ Outside(kw.code_length, 4, 8)
           [] cmd = "verifications verify" -> Outside(kw.code, 1000, 999999)
           [] OTHER -> FALSE

\* The command ended on the rejection of its input: typer's parameter error,
\* or pydantic's ValidationError printed by the command or escaping it
FailedValidation ==
  /\ out.code # 0
  /\ \/ out.uncaught = "ValidationError"
     \/ out.lines = << Line("Error: {str(e)}", "ValidationError", 0) >>
     \/ out.lines = << Line("Usage: invalid value for option", "", 0) >>

\* The command ended on the missing-credentials message
FailedCredentials ==
  /\ out.code = 1
  /\ Len(out.lines) >= 1
  /\ out.lines[1] = Line("Error: API credentials not configured.", "", 0)

\* C2 as stated: in every command that builds a request entity, an input
\* that violates a field constraint makes the command fail with a validation
\* error, and no HTTP request is issued.
C2_Original ==
  (pc = "done" /\ InputViolatesConstraint) =>
    (FailedValidation /\ requests = << >>)

\* C2 as amended: an input that violates a field constraint never leads to
\* an HTTP request and the command fails: with a validation error if typer
\* rejects the option or if the credentials are configured, and otherwise
\* with the missing-credentials error, or with the error of loading the
\* configuration file (the credentials are loaded and checked before the
\* entity is built).
C2_ValidationBeforeRequest ==
  InputViolatesConstraint =>
    /\ pc = "done"
    /\ requests = << >>
    /\ response = NoResponse
    /\ out.code # 0
    /\ IF creds = NotLoaded
            \/ (creds.service_id \in { "sid", "sid2" }
                  /\ creds.secret_token \in { "tok", "tok2" })
         THEN FailedValidation
         ELSE IF creds = LoadFailed
           THEN ~ FailedValidation /\ ~ FailedCredentials
           ELSE FailedCredentials /\ ~ FailedValidation

C2_Witness ==
  /\ pc = "done"
  /\ cmd = "messages send"
  /\ args.kwargs.sender_name = 12
  /\ creds = [ service_id |-> "sid", secret_token |-> "tok" ]
  /\ InputViolatesConstraint
  /\ FailedValidation
  /\ client_built
  /\ requests = << >>

\* C3: when the response status is not 2xx the operation returns no entity
\* and fails with an error that carries the response: its status code and
\* its body, hence the server's detail message.
C3_NonSuccessRaises ==
  (GotResponse /\ MethodCalled /\ ~ (response.status \in 200..299)) =>
    /\ result.outcome = "raised"
    /\ result.entities = << >>
    /\ result.error = "HTTPStatusError"
    /\ result.response.status = response.status
    /\ result.response.body.kind = response.body.kind
    /\ result.response.body.detail = response.body.detail

C3_Witness ==
  /\ GotResponse
  /\ op = "get_account"
  /\ response.status = 401
  /\ response.body.detail = "Authentication credentials not provided."
  /\ result.error = "HTTPStatusError"
  /\ result.response.status = 401
  /\ result.response.body.detail = "Authentication credentials not provided."

\* C4: a client operation issues at most one HTTP request per call, and
\* exactly one unless its local precondition (the existence of the logo
\* file) fails; this still holds once the answer has arrived, whatever the
\* answer (no retry, no second page).
C4_OneRequestPerCall ==
  /\ Len(requests) <= 1
  /\ MethodCalled =>
       IF op = "upload_logo" /\ ~ args.path_exists
         THEN requests = << >>
         ELSE Len(requests) = 1

\* C5: a command whose loaded credentials lack service_id or secret_token
\* (None or empty) prints "Error: API credentials not configured", exits
\* with status 1, constructs no API client and issues no HTTP request.
C5_MissingCredentials ==
  ( /\ layer = "command"
    /\ creds # NotLoaded
    /\ \/ creds.service_id \in { NoneStr, "" }
       \/ creds.secret_token \in { NoneStr, "" } ) =>
    /\ pc = "done"
    /\ FailedCredentials
    /\ ~ client_built
    /\ ~ MethodCalled
    /\ requests = << >>

C5_Witness ==
  /\ pc = "done"
  /\ layer = "command"
  /\ creds.service_id = "sid"
  /\ creds.secret_token = ""
  /\ FailedCredentials

\* The response is a 2xx whose body is the bare JSON array of well-formed
\* objects
BareArrayOfValid ==
  /\ GotResponse
  /\ response.status \in 200..299
  /\ response.body.kind = "array"
  /\ \A i \in 1..Len(response.body.items) : response.body.items[i].valid

\* The response is a 2xx whose body is {"results": [...]} of well-formed
\* objects
EnvelopeOfValid ==
  /\ GotResponse
  /\ response.status \in 200..299
  /\ response.body.kind = "envelope"
  /\ \A i \in 1..Len(response.body.items) : response.body.items[i].valid

\* The response is a 2xx whose body is one well-formed object
ObjectValid ==
  /\ GotResponse
  /\ response.status \in 200..299
  /\ response.body.kind = "object"
  /\ response.body.items[1].valid

\* The method returned one entity of class t per element of the response's
\* items, in the same order
ReturnedEachItem(t) ==
  /\ result.outcome = "returned"
  /\ Len(result.entities) = Len(response.body.items)
  /\ \A i \in 1..Len(response.body.items) :
       /\ result.entities[i].type = t
       /\ result.entities[i].id = response.body.items[i].id

\* C6: list_contacts, given a 2xx response whose body is a bare JSON array
\* of n contact objects, returns exactly n Contact entities in the array's
\* order.
C6_ListContactsBareArray ==
  (op = "list_contacts" /\ BareArrayOfValid) => ReturnedEachItem("Contact")

\* C7: list_contacts, given a 2xx response whose body is the envelope
\* {"results": [c]} holding one contact object c, returns a list of exactly
\* one Contact whose contact_id is c's.
C7_ListContactsEnvelope ==
  (op = "list_contacts" /\ EnvelopeOfValid /\ Len(response.body.items) = 1) =>
    ReturnedEachItem("Contact")

\* C8: list_extensions, list_actions, list_groups, list_sender_names and
\* list_messages, given a 2xx response {"results": [e1..en]}, each return
\* exactly n parsed entities, one per element and in the same order.
C8_ListEnvelope ==
  (op \in { "list_extensions", "list_actions", "list_groups",
            "list_sender_names", "list_messages" } /\ EnvelopeOfValid) =>
    ReturnedEachItem(
      CASE op = "list_extensions" -> "Extension"
        [] op = "list_actions" -> "ExtensionAction"
        [] op = "list_groups" -> "Groupe"
        [] op = "list_sender_names" -> "SenderName"
        [] op = "list_messages" -> "Message")

\* The query string of the request carries limit and offset with the
\* caller's values, 10 and 0 when the caller gave none
SendsPaging ==
  /\ { "limit", "offset" } \subseteq DOMAIN requests[1].params
  /\ requests[1].params["limit"] = IF args.limit = None THEN 10 ELSE args.limit
  /\ requests[1].params["offset"] = IF args.offset = None THEN 0 ELSE args.offset
  /\ DOMAIN requests[1].params \subseteq
       { "limit", "offset", "status", "sent_at__gte", "sent_at__lte" }

MessageFilters == { "status", "sent_at__gte", "sent_at__lte" }

\* C9 as stated: every list operation sends limit and offset equal to the
\* caller's values (10 and 0 when not given); list_messages sends status,
\* sent_at__gte and sent_at__lte exactly for the filters the caller supplied
\* and no key for a filter the caller did not supply.
C9_Original ==
  (op \in ListOps /\ Len(requests) = 1) =>
    /\ SendsPaging
    /\ \A k \in MessageFilters :
         IF op = "list_messages" /\ args[k] # NoneStr
           THEN k \in DOMAIN requests[1].params /\ requests[1].params[k] = args[k]
           ELSE k \notin DOMAIN requests[1].params

\* C9 as amended: as above, but a filter is sent exactly when the caller
\* supplied a non-empty value for it; a filter given as the empty string is
\* left out like one that was not given, so no empty value is ever sent.
C9_QueryParameters ==
  (op \in ListOps /\ Len(requests) = 1) =>
    /\ SendsPaging
    /\ \A k \in MessageFilters :
         IF op = "list_messages" /\ args[k] \notin { NoneStr, "" }
           THEN k \in DOMAIN requests[1].params /\ requests[1].params[k] = args[k]
           ELSE k \notin DOMAIN requests[1].params

C9_Witness ==
  /\ op = "list_messages"
  /\ Len(requests) = 1
  /\ args.limit = None
  /\ args.offset = 2
  /\ args.status = "sent"
  /\ args.sent_at__gte = ""
  /\ args.sent_at__lte = NoneStr
  /\ DOMAIN requests[1].params = { "limit", "offset", "status" }
  /\ requests[1].params["limit"] = 10

\* C10: on a 2xx response with a well-formed body, each of list_messages,
\* send_message, get_message, list_contacts, create_contact, list_groups,
\* list_sender_names, create_verification and check_verification returns
\* the corresponding parsed entity and does not fail.
C10_SuccessPathReturns ==
  /\ (op \in { "list_messages", "list_groups", "list_sender_names" }
        /\ EnvelopeOfValid) =>
       ReturnedEachItem(CASE op = "list_messages" -> "Message"
                          [] op = "list_groups" -> "Groupe"
                          [] op = "list_sender_names" -> "SenderName")
  /\ (op = "list_contacts" /\ BareArrayOfValid) => ReturnedEachItem("Contact")
  /\ (op \in { "send_message", "get_message", "create_contact",
               "create_verification", "check_verification" } /\ ObjectValid) =>
       ReturnedEachItem(CASE op = "send_message" -> "MessageResponse"
                          [] op = "get_message" -> "Message"
                          [] op = "create_contact" -> "Contact"
                          [] op = "create_verification" -> "RequestVerification"
                          [] op = "check_verification" -> "CheckVerification")

\* The write operations that take one of CreateExtension, CreateContact,
\* CreateMessage, RequestVerification and CheckVerification
EntityWriteOps ==
  { "create_extension", "create_contact", "send_message",
    "create_verification", "check_verification" }

\* The fields of the request entity that hold a value
FieldsWithValue == { f \in DOMAIN entity.fields : entity.fields[f] # None }

\* C11: a write operation called with a validated request entity issues
\* exactly one POST or PATCH request whose JSON body holds the entity's
\* fields that have a value; the serialization of the entity does not fail.
C11_ValidEntitySendsBody ==
  (op \in EntityWriteOps /\ entity.fields # EmptyDict) =>
    /\ result.error # "TypeError"
    /\ Len(requests) = 1
    /\ requests[1].method \in { "POST", "PATCH" }
    /\ requests[1].encoding = "json"
    /\ DOMAIN requests[1].json = FieldsWithValue
    /\ \A f \in FieldsWithValue : requests[1].json[f] = entity.fields[f]

\* The fields the caller of the client method supplied with a value
SuppliedFields == { f \in DOMAIN args.kwargs : args.kwargs[f] # None }

\* C12: the body of the request a write operation sends has a key only for
\* the fields the caller supplied when building the entity; an optional
\* field that was absent on input is sent neither as null nor as a default.
C12_OnlySuppliedFields ==
  (layer = "client" /\ op \in EntityWriteOps /\ Len(requests) = 1) =>
    DOMAIN requests[1].json \subseteq SuppliedFields

\* The value the caller gave for field f, None if the caller gave none
Given(f) == IF f \in DOMAIN args.kwargs THEN args.kwargs[f] ELSE None

\* The keyword arguments of a verification request are acceptable but for
\* the three optional integers
OtherVerificationFieldsValid ==
  /\ Given("to") # None /\ Given("to") <= 128
  /\ Given("message") <= 153
  /\ Given("sender_name") <= 11

\* Each optional integer of a verification request is absent or in range
VerificationIntegersInRange ==
  /\ Given("expiry_time") = None \/ Given("expiry_time") \in 5..30
  /\ Given("attempts") = None \/ Given("attempts") \in 3..10
  /\ Given("code_length") = None \/ Given("code_length") \in 4..8

\* C13: the construction of a verification request succeeds exactly when
\* each of expiry_time, attempts and code_length is absent or within
\* [5,30], [3,10] and [4,8]; otherwise it is rejected with a validation
\* error.  The command rejects the same values when it parses its options,
\* so that no entity is built from them.
C13_VerificationRanges ==
  /\ ( /\ layer = "construct"
       /\ entity.type = "RequestVerification"
       /\ OtherVerificationFieldsValid ) =>
       IF VerificationIntegersInRange
         THEN /\ result.outcome = "returned"
              /\ \A f \in { "expiry_time", "attempts", "code_length" } :
                   entity.fields[f] = Given(f)
         ELSE /\ result.outcome = "raised"
              /\ result.error = "ValidationError"
              /\ entity.fields = EmptyDict
  /\ ( /\ layer = "command"
       /\ cmd = "verifications create"
       /\ ~ VerificationIntegersInRange ) =>
       /\ entity = NoEntity
       /\ out.code = 2
       /\ requests = << >>

\* Both limits of each range are accepted
C13_Witness ==
  /\ layer = "construct"
  /\ entity.type = "RequestVerification"
  /\ Given("expiry_time") = 30
  /\ Given("attempts") = 3
  /\ Given("code_length") = 8
  /\ result.outcome = "returned"
  /\ entity.fields["expiry_time"] = 30

\* The string is exactly one of the wire values of the enum, in the same case
IsWireValue(str, values) == \E v \in values : str = v

\* C14: parsing an object whose enum field (Message.status,
\* DeliveryMessage.status, SenderName.status, Extension.auth_type,
\* ExtensionAction.method, CheckVerification.status) holds a string that is
\* not exactly one of the enum's wire values fails with a validation
\* (decode) error and yields no entity, hence no entity with a default in
\* place of the string.
C14_UnknownEnumValueFails ==
  ( /\ layer = "parse"
    /\ \/ /\ wire.obj.enum # NoneStr
          /\ ~ IsWireValue(wire.obj.enum,
                CASE wire.type \in { "Message", "DeliveryMessage" } ->
                       { "pending", "sent", "failure", "not_available",
                         "received", "tosend" }
                  [] wire.type = "SenderName" -> { "pending", "refused", "accepted" }
                  [] wire.type = "Extension" -> { "none", "api_key", "oauth2" }
                  [] wire.type = "ExtensionAction" ->
                       { "GET", "POST", "PUT", "PATCH", "DELETE" }
                  [] wire.type = "CheckVerification" ->
                       { "pending", "sent", "expired", "failure", "received",
                         "too_many_attempts", "approved" })
       \/ /\ wire.obj.nested # NoneStr
          /\ ~ IsWireValue(wire.obj.nested,
                { "pending", "sent", "failure", "not_available", "received",
                  "tosend" }) ) =>
    /\ result.outcome = "raised"
    /\ result.error = "ValidationError"
    /\ result.entities = << >>

\* "SENT" is not the wire value "sent"
C14_Witness ==
  /\ layer = "parse"
  /\ wire.type = "Message"
  /\ wire.obj.valid
  /\ wire.obj.enum = "SENT"
  /\ wire.obj.nested = NoneStr
  /\ result.error = "ValidationError"

LoadedNow == LoadCredentials(config_file)
LoadedBefore == LoadCredentials(file_before)

\* C16: after a call of save_credentials, load_credentials returns for each
\* of service_id and secret_token the value the call specified, and the
\* value that was stored before if the call did not specify the field (by
\* induction: the value of the most recent call that specified it).
C16_SaveThenLoad ==
  (pc = "done" /\ op = "save_credentials") =>
    /\ ~ LoadedNow.raised
    /\ LoadedNow.creds.service_id =
         IF saves[1].service_id # NoneStr THEN saves[1].service_id
         ELSE LoadedBefore.creds.service_id
    /\ LoadedNow.creds.secret_token =
         IF saves[1].secret_token # NoneStr THEN saves[1].secret_token
         ELSE LoadedBefore.creds.secret_token

\* C17: load_credentials returns Credentials(None, None), and does not
\* raise, whenever the configuration file does not exist or does not hold a
\* credentials document.
C17_LoadNeverRaises ==
  (pc = "done" /\ op = "load_credentials" /\ config_file.kind # "doc") =>
    /\ result.outcome = "returned"
    /\ creds = Credentials(NoneStr, NoneStr)

\* The config command was given a sub-command other than "set" or a key
\* other than service_id and secret_token
ConfigRejected ==
  \/ args.kwargs.command # "set"
  \/ args.kwargs.key \notin { "service_id", "secret_token" }

\* The one call of save_credentials that "config set <key> <value>" makes
ConfigSaveCall ==
  IF args.kwargs.key = "service_id"
    THEN Credentials(args.kwargs.value, NoneStr)
    ELSE Credentials(NoneStr, args.kwargs.value)

\* The stored field that the config command was not asked to set is as
\* before
OtherFieldKept ==
  /\ ~ LoadedNow.raised
  /\ IF args.kwargs.key = "service_id"
       THEN LoadedNow.creds.secret_token = LoadedBefore.creds.secret_token
       ELSE LoadedNow.creds.service_id = LoadedBefore.creds.service_id

CommandGotErrorStatus ==
  /\ layer = "command"
  /\ cmd \in Commands
  /\ GotResponse
  /\ response.status \notin 200..299

\* C19: a command whose API call fails with status 401 reports invalid
\* credentials, with status 429 that the rate limit was exceeded, whatever
\* the body of the response, and with any other status that is not 2xx it
\* reports the detail message of the server; in each case it exits with 1.
C19_StatusMessages ==
  CommandGotErrorStatus =>
    /\ out.code = 1
    /\ out.uncaught = ""
    /\ CASE response.status = 401 ->
              out.lines = << Line("Error: Invalid credentials", "", 0) >>
         [] response.status = 429 ->
              out.lines = << Line("Error: Rate limit exceeded", "", 0) >>
         [] OTHER ->
              response.body.kind = "detail" =>
                out.lines = << Line("Error: {detail}", response.body.detail, 0) >>

\* The ways in which a command that calls the API fails
MissingCredentialsFailure ==
  /\ creds \notin { NotLoaded, LoadFailed }
  /\ creds.service_id \in { NoneStr, "" } \/ creds.secret_token \in { NoneStr, "" }

ConnectionFailure == pc = "done" /\ response.status = 0

MalformedResponse ==
  /\ GotResponse
  /\ response.status \in 200..299
  /\ op # "delete_action"
  /\ response.body.kind = "notjson"

CommandFailed ==
  /\ layer = "command"
  /\ cmd \in Commands
  /\ pc = "done"
  /\ \/ MissingCredentialsFailure
     \/ InputViolatesConstraint
     \/ CommandGotErrorStatus
     \/ ConnectionFailure
     \/ MalformedResponse

\* C20: every command invocation that fails (missing credentials, invalid
\* input, HTTP error status, connection failure, malformed response) prints
\* an error message and ends with an exit status other than 0.
C20_FailuresReported ==
  CommandFailed =>
    /\ out.code # 0
    /\ out.uncaught = ""
    /\ out.lines # << >>

\* A command's API call got a response that is not 2xx and whose body has no
\* detail field: {}, an empty array or envelope, or a body that is not JSON
NoDetailInBody ==
  /\ CommandGotErrorStatus
  /\ response.body.kind # "detail"

\* C21: a command whose API call gets a response that is not 2xx and whose
\* body has no detail field (an empty or non-JSON body included) falls back
\* to a generic message: it prints exactly one line "Error: ..." and exits
\* with 1.
C21_DetailFallback ==
  NoDetailInBody =>
    /\ out.code = 1
    /\ out.uncaught = ""
    /\ Len(out.lines) = 1
    /\ out.lines[1].text \in { "Error: {detail}", "Error: Invalid credentials",
                               "Error: Rate limit exceeded" }

\* An entity was constructed and validated in this invocation
EntityConstructed == entity.type \in RequestTypes /\ entity.fields # EmptyDict

\* C22: once an entity has been constructed and validated, none of its
\* fields changes: in every state the entity equals the value it had at
\* construction and satisfies the constraints of its fields.
C22_EntitiesImmutable ==
  EntityConstructed =>
    /\ entity.fields = Construct(entity.type, args.kwargs)
    /\ \A f \in DOMAIN entity.fields :
         LET spec == FieldsOf(entity.type)[f]
             v == entity.fields[f]
         IN  \/ v = spec.default
             \/ v = None /\ spec.optional
             \/ v # None /\ spec.lo <= v /\ v <= spec.hi

\* get_account was answered 2xx with the JSON object of an account
AccountReceived ==
  /\ op = "get_account"
  /\ GotResponse
  /\ response.status \in 200..299
  /\ response.body.kind = "account"

\* C23: every Account that get_account returns has balance >= 0; a 2xx
\* response whose balance is negative is rejected and no Account is returned.
C23_BalanceNonNegative ==
  AccountReceived =>
    IF response.body.items[1].balance < 0
      THEN result.outcome = "raised" /\ result.entities = << >>
      ELSE /\ result.outcome = "returned"
           /\ Len(result.entities) = 1
           /\ result.entities[1].balance = response.body.items[1].balance
           /\ result.entities[1].balance >= 0

\* The operation was answered 2xx with a body of the shape it expects (one
\* JSON object, an envelope, a bare array) in which an object lacks a
\* required field of the entity or holds a malformed value for it
BodyHasInvalidObject ==
  /\ MethodCalled
  /\ GotResponse
  /\ response.status \in 200..299
  /\ op # "delete_action"
  /\ response.body.kind =
       IF op \in EnvelopeListOps THEN "envelope"
       ELSE IF op \in BareListOps THEN "array"
       ELSE "object"
  /\ \E i \in 1..Len(response.body.items) : ~ response.body.items[i].valid

\* C24: when a 2xx response body lacks a required field of the expected
\* entity or holds a malformed value for it, the operation fails with a
\* decode error (pydantic's ValidationError) and returns nothing: no entity,
\* and for a list operation no list of the elements parsed so far.
C24_DecodeErrorReturnsNothing ==
  BodyHasInvalidObject =>
    /\ result.outcome = "raised"
    /\ result.error = "ValidationError"
    /\ result.entities = << >>

\* The command c ran to its end with both credentials configured
RanWithCredentials(c) ==
  /\ layer = "command"
  /\ cmd = c
  /\ pc = "done"
  /\ creds.service_id \in { "sid", "sid2" }
  /\ creds.secret_token \in { "tok", "tok2" }

\* C25: "extensions publish <extension id>" calls publish_action of the API
\* client exactly once, and when the API accepts the request it prints
\* "Extension published successfully!" and exits with 0.
C25_PublishCommand ==
  RanWithCredentials("extensions publish") =>
    /\ op = "publish_action"
    /\ Len(requests) = 1
    /\ ObjectValid =>
         /\ out.lines = << Line("Extension published successfully!", "", 0) >>
         /\ out.code = 0

\* "extensions update" got past _get_client(): both credentials are
\* configured
UpdateRan ==
  /\ layer = "command"
  /\ cmd = "extensions update"
  /\ pc \in { "await", "done" }
  /\ creds.service_id \in { "sid", "sid2" }
  /\ creds.secret_token \in { "tok", "tok2" }

UpdateKeys ==
  { "name", "description", "base_api_url", "documentation_url", "website_url" }

\* The value given for the option behind key k of the body (--docs-url
\* feeds documentation_url); None: the option was not given
OptionGiven(k) ==
  IF k = "documentation_url" THEN args.kwargs.docs_url ELSE args.kwargs[k]

\* What the update command did, for the set of keys it is expected to send
UpdateSends(keys) ==
  IF keys = {}
    THEN /\ out.lines = << Line("No updates provided.", "", 0) >>
         /\ out.code = 0
         /\ op = ""
         /\ requests = << >>
    ELSE /\ op = "update_extension"
         /\ Len(requests) = 1
         /\ requests[1].json = [ k \in keys |-> OptionGiven(k) ]

\* C26 as stated: "extensions update" calls update_extension exactly once
\* with a body holding exactly the options the user supplied; when no option
\* is supplied it prints "No updates provided", exits with 0 and never calls
\* update_extension, so that no HTTP request is issued.
C26_Original ==
  UpdateRan => UpdateSends({ k \in UpdateKeys : OptionGiven(k) # None })

\* C26 as amended: as above, for the options supplied with a non-empty
\* value; an option given as the empty string counts as not supplied.
C26_UpdateCommand ==
  UpdateRan =>
    UpdateSends({ k \in UpdateKeys : OptionGiven(k) # None /\ OptionGiven(k) # 0 })

\* --name "" --description <text>: the body holds the description only, and
\* the update is reported
C26_Witness ==
  /\ UpdateRan
  /\ pc = "done"
  /\ args.kwargs.name = 0
  /\ args.kwargs.description = 5
  /\ args.kwargs.base_api_url = None
  /\ Len(requests) = 1
  /\ requests[1].json = [ description |-> 5 ]
  /\ out.lines = << Line("Extension updated successfully!", "", 0) >>
  /\ out.code = 0

\* "verifications verify" was answered 2xx with a check result whose status
\* is one of the seven values of VerificationStatus
CheckResultReceived ==
  /\ layer = "command"
  /\ cmd = "verifications verify"
  /\ GotResponse
  /\ response.status \in 200..299
  /\ response.body.kind = "check"

\* The line the verify command prints for a status, "" if it has none
StatusLine(status) ==
  CASE status = "approved" -> "Code verified successfully!"
    [] status = "expired" -> "Code has expired."
    [] status = "too_many_attempts" -> "Too many failed attempts."
    [] status = "failure" -> "Invalid code."
    [] OTHER -> ""

\* C27: "verifications verify" exits with 0 for every 2xx check result
\* whose status is one of the seven verification statuses, whatever the
\* status, and prints the line of that status: approved -> "Code verified
\* successfully!", expired -> "Code has expired.", too_many_attempts -> "Too
\* many failed attempts.", failure -> "Invalid code.".
C27_VerifyStatuses ==
  CheckResultReceived =>
    /\ out.code = 0
    /\ out.uncaught = ""
    /\ (args.output = "table" /\ StatusLine(response.body.items[1].status) # "") =>
         \E i \in 1..Len(out.lines) :
           out.lines[i].text = StatusLine(response.body.items[1].status)

\* Both concurrent calls of save_credentials are over
BothComplete ==
  /\ procs # NoProcs
  /\ \A p \in Procs : procs[p].pc \in { "done", "raised" }

\* C28: when two calls of save_credentials on the same file interleave, one
\* specifying only service_id and the other only secret_token, the file
\* holds both new values after both are complete: no update is lost and the
\* file is a complete credentials document.  (Stated for a file that
\* load_credentials can read when the calls start.)
C28_NoLostUpdate ==
  (BothComplete /\ file_before.kind # "notmapping") =>
    config_file = File("doc", Credentials(procs[1].service_id, procs[2].secret_token))

\* load_credentials returns a non-empty value of field f for the file
StoredNonEmpty(file, f) ==
  /\ file.kind = "doc"
  /\ file.creds[f] # NoneStr
  /\ file.creds[f] # ""

ListedAsJson ==
  /\ layer = "command"
  /\ cmd \in { "contacts list", "extensions list", "groups list", "messages list" }
  /\ pc = "done"
  /\ args.output = "json"
  /\ result.outcome = "returned"

\* C30: a list command (contacts, extensions, groups, messages) run with
\* --output json that succeeds writes one JSON array with exactly one
\* element per entity the client returned, the empty array included when
\* the client returned no entity.
C30_JsonListOutput ==
  ListedAsJson =>
    /\ out.code = 0
    /\ out.lines = << Line("{json array}", "", Len(result.entities)) >>

=============================================================================
